---- MODULE Spec2Model ----
(***************************************************************************)
(* Model of src/map.js: the bike-share station traffic map.                *)
(*                                                                         *)
(* The page script is one asynchronous map 'load' handler (it loads the    *)
(* station JSON and the trip CSV, aggregates traffic per station, draws    *)
(* one circle per station and registers the time-slider listeners) and one *)
(* slider handler, updateTimeDisplay, which re-filters the trips,          *)
(* re-aggregates on a fresh copy of the stations and restyles the circles. *)
(*                                                                         *)
(* Station records are JavaScript objects that the aggregator writes to,   *)
(* so they live in a heap (address -> record) and arrays hold addresses.   *)
(* Map panning/zooming and the projected circle positions (map.project)    *)
(* belong to the mapping library and are not part of the model.            *)
(***************************************************************************)
EXTENDS Integers, Sequences, FiniteSets, TLC

\* ------------------------------------------------------------------------
\* Bounds of the model and the inputs drawn within them
\* ------------------------------------------------------------------------

MaxStations == 2
MaxTrips == 2

\* src/map.js:19: the slider value / timeFilter meaning "any time".
INACTIVE == -1

\* The number a d3 scale stores for an undefined domain bound (line 165,
\* d3.max of an empty station list): NaN, written as a value outside the
\* traffic counts.
NaN == -2

StationIds == {"A", "B", "C"}

\* A station object as the station feed supplies it: identifier and position
\* (position in 1e-5 degrees), no derived field yet.
Station(id) ==
  [short_name |-> id,
   lat |-> CASE id = "A" -> 4236027 [] id = "B" -> 4235110 [] OTHER -> 4237300,
   lon |-> CASE id = "A" -> -7109415 [] id = "B" -> -7108220 [] OTHER -> -7111000]

\* Station lists: identifiers are unique within one snapshot.
StationLists ==
  UNION { { [i \in 1..n |-> Station(ids[i])] :
              ids \in { f \in [1..n -> StationIds] :
                          \A i, j \in 1..n : f[i] = f[j] => i = j } } :
          n \in 0..MaxStations }

\* A parsed Date, of which the program reads the time of day only.
Date(h, m) == [hours |-> h, minutes |-> m]

Trip(s, e, sh, sm, eh, em) ==
  [start_station_id |-> s, end_station_id |-> e,
   started_at |-> Date(sh, sm), ended_at |-> Date(eh, em)]

\* The trips the trip feed may supply (start/end minutes since midnight):
\*   A->B 480/490, B->A 500/610, C->A 0/30, A->A 0/0, B->C 540/661,
\*   C->B 1358/1439.
TripPool ==
  { Trip("A", "B", 8, 0, 8, 10),
    Trip("B", "A", 8, 20, 10, 10),
    Trip("C", "A", 0, 0, 0, 30),
    Trip("A", "A", 0, 0, 0, 0),
    Trip("B", "C", 9, 0, 11, 1),
    Trip("C", "B", 22, 38, 23, 59) }

TripLists == UNION { [1..n -> TripPool] : n \in 0..MaxTrips }

\* Slider positions the user may select: the sentinel and centers in 0..1439.
FilterValues == {INACTIVE, 0, 550, 551, 600, 1439}

DerivedFields == {"arrivals", "departures", "totalTraffic"}

\* ------------------------------------------------------------------------
\* State
\* ------------------------------------------------------------------------

VARIABLES
  pc,             \* position of the 'load' handler
  domOk,          \* the slider and its two labels exist in the page
  sliderValue,    \* timeSlider.value (DOM state, set by the user)
  layers,         \* map layers added by the handler
  errors,         \* console.error diagnostics, in order
  heap,           \* station objects: address -> record
  jsonData,       \* jsonData.data.stations: addresses
  stations,       \* the handler's `stations` array: addresses
  trips,          \* the handler's `trips` array
  filteredTrips,  \* `filteredTrips` of the latest updateScatterPlot call
  radiusScale,    \* [domain, range] of the sqrt scale
  circles,        \* the circle selection, in document order
  listeners,      \* slider 'input'/'change' listeners registered
  timeFilter,     \* the global timeFilter
  selectedTime,   \* selectedTime.textContent
  anyTimeDisplay  \* anyTimeLabel.style.display

vars == <<pc, domOk, sliderValue, layers, errors, heap, jsonData, stations,
          trips, filteredTrips, radiusScale, circles, listeners, timeFilter,
          selectedTime, anyTimeDisplay>>

\* ------------------------------------------------------------------------
\* Helpers (lines 21-94)
\* ------------------------------------------------------------------------

\* formatTime: new Date(0, 0, 0, 0, minutes) rendered by
\* toLocaleString('en-US', {timeStyle: 'short'}), e.g. "8:05 AM".
formatTime(minutes) ==
  LET h == (minutes \div 60) % 24
      m == minutes % 60
      h12 == IF h % 12 = 0 THEN 12 ELSE h % 12
  IN ToString(h12) \o ":" \o (IF m < 10 THEN "0" ELSE "") \o ToString(m)
       \o " " \o (IF h < 12 THEN "AM" ELSE "PM")

\* d3.rollup(trips, v => v.length, d => d[field]): a Map from each key that
\* occurs to the number of trips carrying it.
rollup(values, field) ==
  [k \in { values[i][field] : i \in 1..Len(values) } |->
     Cardinality({ i \in 1..Len(values) : values[i][field] = k })]

\* map.get(id) ?? 0
getOrZero(map, id) == IF id \in DOMAIN map THEN map[id] ELSE 0

\* station.f = v on a JavaScript object: adds the field or overwrites it.
setField(obj, f, v) ==
  [x \in DOMAIN obj \cup {f} |-> IF x = f THEN v ELSE obj[x]]

\* Variants of the callback with one slip each, used to show that the
\* properties below depend on it: the total taken from arrivals twice; the
\* counts added to those already on the object; the two counts exchanged; a
\* new record that keeps the identifier only.
enrichTotalSlip(station, arrivals, departures) ==
  LET id == station.short_name
      s1 == setField(station, "arrivals", getOrZero(arrivals, id))
      s2 == setField(s1, "departures", getOrZero(departures, id))
  IN setField(s2, "totalTraffic", s2.arrivals + s2.arrivals)

enrichAccumulate(station, arrivals, departures) ==
  LET id == station.short_name
      old(f) == IF f \in DOMAIN station THEN station[f] ELSE 0
      s1 == setField(station, "arrivals",
                     old("arrivals") + getOrZero(arrivals, id))
      s2 == setField(s1, "departures",
                     old("departures") + getOrZero(departures, id))
  IN setField(s2, "totalTraffic", s2.arrivals + s2.departures)

enrichSwapped(station, arrivals, departures) ==
  LET id == station.short_name
      s1 == setField(station, "arrivals", getOrZero(departures, id))
      s2 == setField(s1, "departures", getOrZero(arrivals, id))
  IN setField(s2, "totalTraffic", s2.arrivals + s2.departures)

enrichIdOnly(station, arrivals, departures) ==
  LET id == station.short_name
      a == getOrZero(arrivals, id)
      d == getOrZero(departures, id)
  IN [short_name |-> id, arrivals |-> a, departures |-> d,
      totalTraffic |-> a + d]

\* The body of the stations.map callback (lines 60-66): the station object
\* after the three assignments.
enrich(station, arrivals, departures) ==
  LET id == station.short_name
      s1 == setField(station, "arrivals", getOrZero(arrivals, id))
      s2 == setField(s1, "departures", getOrZero(departures, id))
  IN setField(s2, "totalTraffic", s2.arrivals + s2.departures)

\* computeStationTraffic(stations, trips) on the heap h: the callback writes
\* to the station objects it is given and returns them, so the result array
\* holds the addresses of the input array and the heap holds the enriched
\* objects.
computeStationTraffic(h, stationRefs, tripList) ==
  LET departures == rollup(tripList, "start_station_id")
      arrivals == rollup(tripList, "end_station_id")
      touched == { stationRefs[i] : i \in 1..Len(stationRefs) }
  IN [heap |-> [a \in DOMAIN h |->
                  IF a \in touched THEN enrich(h[a], arrivals, departures)
                                   ELSE h[a]],
      result |-> [i \in 1..Len(stationRefs) |-> stationRefs[i]]]

minutesSinceMidnight(date) == date.hours * 60 + date.minutes

abs(x) == IF x < 0 THEN -x ELSE x

\* Variant of the window test with the distance taken around the clock.
inWindowCircular(trip, filter) ==
  LET startedMinutes == minutesSinceMidnight(trip.started_at)
      endedMinutes == minutesSinceMidnight(trip.ended_at)
      dist(a) == IF abs(a - filter) <= 1440 - abs(a - filter)
                 THEN abs(a - filter) ELSE 1440 - abs(a - filter)
  IN dist(startedMinutes) <= 60 \/ dist(endedMinutes) <= 60

\* The predicate of trips.filter (lines 78-86).
inWindow(trip, filter) ==
  LET startedMinutes == minutesSinceMidnight(trip.started_at)
      endedMinutes == minutesSinceMidnight(trip.ended_at)
  IN abs(startedMinutes - filter) <= 60 \/ abs(endedMinutes - filter) <= 60

\* Variant of the filter without the guard for the inactive value.
filterTripsNoGuard(tripList, filter) ==
  SelectSeq(tripList, LAMBDA trip : inWindow(trip, filter))

filterTripsByTime(tripList, filter) ==
  IF filter = INACTIVE THEN tripList
  ELSE SelectSeq(tripList, LAMBDA trip : inWindow(trip, filter))

\* Variant of the quantize scale that sends a value on a threshold to the
\* bucket below it.
stationFlowBelow(num, den) ==
  IF 3 * num <= den THEN "0"
  ELSE IF 3 * num <= 2 * den THEN "0.5"
  ELSE "1"

\* stationFlow = d3.scaleQuantize().domain([0, 1]).range([0, 0.5, 1]): the
\* thresholds are 1/3 and 2/3 and a value on a threshold goes to the bucket
\* above it.  The ratio is the fraction num/den (den > 0); the bucket is the
\* text the CSS variable receives.
stationFlow(num, den) ==
  IF 3 * num < den THEN "0"
  ELSE IF 3 * num < 2 * den THEN "0.5"
  ELSE "1"

\* The --departure-ratio callback (lines 180-183, 243-246).
departureRatio(d) ==
  IF d.totalTraffic = 0 THEN stationFlow(0, 1)
  ELSE stationFlow(d.departures, d.totalTraffic)

\* ------------------------------------------------------------------------
\* The radius scale (d3.scaleSqrt) and the circle selection
\* ------------------------------------------------------------------------

\* Largest n with n * n <= x, by bisection on lo..hi.
RECURSIVE isqrtIn(_, _, _)
isqrtIn(x, lo, hi) ==
  IF lo >= hi THEN lo
  ELSE LET mid == (lo + hi + 1) \div 2
       IN IF mid * mid <= x THEN isqrtIn(x, mid, hi)
          ELSE isqrtIn(x, lo, mid - 1)

isqrt(x) == isqrtIn(x, 0, 8191)

\* d3.max(array, d => d.totalTraffic): <<m>> for the largest value, <<>>
\* (undefined) for an empty array.
d3max(values) ==
  IF Len(values) = 0 THEN <<>>
  ELSE <<CHOOSE m \in { values[i] : i \in 1..Len(values) } :
           \A i \in 1..Len(values) : values[i] <= m>>

\* scale.domain([0, v]) coerces each bound to a number: undefined becomes NaN.
toNumber(v) == IF v = <<>> THEN NaN ELSE v[1]

\* v || 0
orZero(v) == IF v = <<>> THEN 0 ELSE v[1]

\* radiusScale(x) for x >= 0, in hundredths of a pixel (rounded down).
\* d3's continuous scale takes sqrt of the domain bounds and of x, normalises
\* sqrt(x) between them and interpolates the range; when the two transformed
\* domain bounds coincide (domain [0, 0]) the normaliser is the constant 0.5,
\* so every input is mapped to the middle of the range; with a NaN bound the
\* result is NaN.
scaleSqrt(scale, x) ==
  LET d1 == scale.domain[2]
      r0 == scale.range[1]
      r1 == scale.range[2]
  IN IF d1 = NaN THEN NaN
     ELSE IF d1 = 0 THEN (100 * r0 + 100 * r1) \div 2
     ELSE 100 * r0 + isqrt((10000 * (r1 - r0) * (r1 - r0) * x) \div d1)

\* The totalTraffic values of a station array, read through the heap.
totals(h, refs) == [i \in 1..Len(refs) |-> h[refs[i]].totalTraffic]

\* The title text of the initial draw (lines 184-190), as its three numbers.
titleOf(d) == <<d.totalTraffic, d.departures, d.arrivals>>

\* The initial draw (lines 169-190): one circle per station, bound to the
\* station object itself.
drawCircles(h, refs, scale) ==
  [i \in 1..Len(refs) |->
     [datum |-> refs[i],
      r |-> scaleSqrt(scale, h[refs[i]].totalTraffic),
      ratio |-> departureRatio(h[refs[i]]),
      title |-> titleOf(h[refs[i]])]]

\* circles.data(data, d => d.short_name).join('circle') followed by the
\* attr/style calls (lines 236-246).  hOld holds the data the circles are bound
\* to now, hNew the new data: a datum whose key is the key of an existing
\* circle takes over that circle (which keeps its title), any other datum gets
\* a new circle; circles left without a datum are removed.
joinCircles(hOld, old, hNew, refs, scale) ==
  [i \in 1..Len(refs) |->
     LET d == hNew[refs[i]]
         same == { j \in 1..Len(old) :
                     hOld[old[j].datum].short_name = d.short_name }
     IN [datum |-> refs[i],
         r |-> scaleSqrt(scale, d.totalTraffic),
         ratio |-> departureRatio(d),
         title |-> IF same = {} THEN <<>>
                   ELSE old[CHOOSE j \in same : \A k \in same : j <= k].title]]

\* jsonData.data.stations.map(d => ({...d})): a new object per station, placed
\* after the loaded ones (the copies of the previous update are unreachable by
\* then, and their addresses are used again).
freshCopy(h, refs) ==
  [heap |-> [a \in 1..(2 * Len(refs)) |->
               IF a <= Len(refs) THEN h[a] ELSE h[refs[a - Len(refs)]]],
   result |-> [i \in 1..Len(refs) |-> Len(refs) + i]]

\* Variant of updateScatterPlot that widens the pixel range for an active
\* filter and never sets it back.
updateScatterPlotStaleRange(h, refs, tripList, scale, old, currentFilter) ==
  LET filtered == filterTripsByTime(tripList, currentFilter)
      copy == freshCopy(h, refs)
      agg == computeStationTraffic(copy.heap, copy.result, filtered)
      filteredStations == agg.result
      maxTraffic == orZero(d3max(totals(agg.heap, filteredStations)))
      newScale == [domain |-> <<0, maxTraffic>>,
                   range |-> IF currentFilter = INACTIVE THEN scale.range
                             ELSE <<3, 50>>]
  IN [heap |-> agg.heap,
      filteredTrips |-> filtered,
      radiusScale |-> newScale,
      circles |-> joinCircles(h, old, agg.heap, filteredStations, newScale)]

\* updateScatterPlot(currentFilter), lines 215-250: the heap, the scale and
\* the circles after the call.
updateScatterPlot(h, refs, tripList, scale, old, currentFilter) ==
  LET filtered == filterTripsByTime(tripList, currentFilter)
      copy == freshCopy(h, refs)
      agg == computeStationTraffic(copy.heap, copy.result, filtered)
      filteredStations == agg.result
      maxTraffic == orZero(d3max(totals(agg.heap, filteredStations)))
      newScale == [domain |-> <<0, maxTraffic>>,
                   range |-> IF currentFilter = INACTIVE THEN <<0, 25>>
                             ELSE <<3, 50>>]
  IN [heap |-> agg.heap,
      filteredTrips |-> filtered,
      radiusScale |-> newScale,
      circles |-> joinCircles(h, old, agg.heap, filteredStations, newScale)]

\* ------------------------------------------------------------------------
\* Initial state: the script has run up to `new mapboxgl.Map` (lines 1-94)
\* ------------------------------------------------------------------------

NoScale == [domain |-> <<>>, range |-> <<>>]

Init ==
  /\ pc = "created"
  /\ domOk \in BOOLEAN
  /\ sliderValue \in FilterValues
  /\ layers = <<>>
  /\ errors = <<>>
  /\ heap = <<>>
  /\ jsonData = <<>>
  /\ stations = <<>>
  /\ trips = <<>>
  /\ filteredTrips = <<>>
  /\ radiusScale = NoScale
  /\ circles = <<>>
  /\ listeners = FALSE
  /\ timeFilter = INACTIVE
  /\ selectedTime = ""
  /\ anyTimeDisplay = ""

\* ------------------------------------------------------------------------
\* The map 'load' handler (lines 98-273), one action per stretch between
\* awaits
\* ------------------------------------------------------------------------

\* Lines 98-135: the map fires 'load'; the two bike-lane layers are added and
\* the station JSON is requested.
MapLoad ==
  /\ pc = "created"
  /\ pc' = "awaitJson"
  /\ layers' = <<"bike-lanes", "cambridge-lanes">>
  /\ UNCHANGED <<domOk, sliderValue, errors, heap, jsonData, stations, trips,
                 filteredTrips, radiusScale, circles, listeners, timeFilter,
                 selectedTime, anyTimeDisplay>>

\* Lines 135-147: d3.json resolves with the station list; `stations` is the
\* loaded array and the trip CSV is requested.
JsonLoaded ==
  /\ pc = "awaitJson"
  /\ \E S \in StationLists :
       /\ heap' = S
       /\ jsonData' = [i \in 1..Len(S) |-> i]
       /\ stations' = [i \in 1..Len(S) |-> i]
  /\ pc' = "awaitCsv"
  /\ UNCHANGED <<domOk, sliderValue, layers, errors, trips, filteredTrips,
                 radiusScale, circles, listeners, timeFilter, selectedTime, anyTimeDisplay>>

\* Lines 137-140: d3.json rejects; the handler logs and returns.
JsonFailed ==
  /\ pc = "awaitJson"
  /\ errors' = Append(errors, "Error loading JSON:")
  /\ pc' = "failed"
  /\ UNCHANGED <<domOk, sliderValue, layers, heap, jsonData, stations, trips,
                 filteredTrips, radiusScale, circles, listeners, timeFilter,
                 selectedTime, anyTimeDisplay>>

\* updateTimeDisplay (lines 252-265) with the slider at value: the new
\* timeFilter, labels, heap, scale and circles.
updateTimeDisplay(h, refs, tripList, scale, old, value) ==
  LET u == updateScatterPlot(h, refs, tripList, scale, old, value)
  IN [timeFilter |-> value,
      selectedTime |-> IF value = INACTIVE THEN "" ELSE formatTime(value),
      anyTimeDisplay |-> IF value = INACTIVE THEN "block" ELSE "none",
      heap |-> u.heap,
      filteredTrips |-> u.filteredTrips,
      radiusScale |-> u.radiusScale,
      circles |-> u.circles]

\* Lines 158-272, run with the trip list T and with log the diagnostics
\* written so far: the handler aggregates over all trips, creates the radius
\* scale, draws the circles, and - when the slider and its labels exist -
\* registers updateTimeDisplay for 'input' and 'change' and calls it once;
\* without them it logs and returns.
render(T, log) ==
  LET agg == computeStationTraffic(heap, stations, T)
      scale == [domain |->
                  <<0, toNumber(d3max(totals(agg.heap, agg.result)))>>,
                range |-> <<0, 25>>]
      drawn == drawCircles(agg.heap, agg.result, scale)
      u == updateTimeDisplay(agg.heap, jsonData, T, scale, drawn, sliderValue)
  IN /\ trips' = T
     /\ stations' = agg.result
     /\ IF domOk
        THEN /\ heap' = u.heap
             /\ filteredTrips' = u.filteredTrips
             /\ radiusScale' = u.radiusScale
             /\ circles' = u.circles
             /\ timeFilter' = u.timeFilter
             /\ selectedTime' = u.selectedTime
             /\ anyTimeDisplay' = u.anyTimeDisplay
             /\ listeners' = TRUE
             /\ errors' = log
             /\ pc' = "ready"
        ELSE /\ heap' = agg.heap
             /\ radiusScale' = scale
             /\ circles' = drawn
             /\ errors' = Append(log,
                                 "Time slider or labels not found in the DOM")
             /\ pc' = "noSlider"
             /\ UNCHANGED <<filteredTrips, timeFilter, selectedTime,
                            anyTimeDisplay, listeners>>
     /\ UNCHANGED <<domOk, sliderValue, layers, jsonData>>

\* Lines 147-152: d3.csv resolves with the parsed trips and the handler goes
\* on to the end.
CsvLoaded ==
  /\ pc = "awaitCsv"
  /\ \E T \in TripLists : render(T, errors)

\* Variant of the CSV failure branch without its `return`: the handler logs
\* and goes on with the empty trip list `trips` was initialised to.
CsvFailedNoReturn ==
  /\ pc = "awaitCsv"
  /\ render(<<>>, Append(errors, "Error loading trips CSV:"))

\* Lines 153-156: d3.csv rejects; the handler logs and returns.
CsvFailed ==
  /\ pc = "awaitCsv"
  /\ errors' = Append(errors, "Error loading trips CSV:")
  /\ pc' = "failed"
  /\ UNCHANGED <<domOk, sliderValue, layers, heap, jsonData, stations, trips,
                 filteredTrips, radiusScale, circles, listeners, timeFilter,
                 selectedTime, anyTimeDisplay>>

\* The user moves the slider to v (an 'input' or 'change' event).  The value
\* of the slider changes in any case; updateTimeDisplay runs only if it has
\* been registered.
SliderEvent ==
  /\ domOk
  /\ \E v \in FilterValues :
       /\ sliderValue' = v
       /\ IF listeners
          THEN LET u == updateTimeDisplay(heap, jsonData, trips, radiusScale,
                                          circles, v)
               IN /\ heap' = u.heap
                  /\ filteredTrips' = u.filteredTrips
                  /\ radiusScale' = u.radiusScale
                  /\ circles' = u.circles
                  /\ timeFilter' = u.timeFilter
                  /\ selectedTime' = u.selectedTime
                  /\ anyTimeDisplay' = u.anyTimeDisplay
          ELSE UNCHANGED <<heap, filteredTrips, radiusScale, circles,
                           timeFilter, selectedTime, anyTimeDisplay>>
  /\ UNCHANGED <<pc, domOk, layers, errors, jsonData, stations, trips,
                 listeners>>

Next ==
  \/ MapLoad
  \/ JsonLoaded
  \/ JsonFailed
  \/ CsvLoaded
  \/ CsvFailed
  \/ SliderEvent

Spec == Init /\ [][Next]_vars

\* ------------------------------------------------------------------------
\* Properties
\* ------------------------------------------------------------------------

\* The handler has run to its end (with or without the slider).
Rendered == pc \in {"ready", "noSlider"}

\* Number of trips of a list that start, resp. end, at station id.
startsAt(tripList, id) ==
  Cardinality({ k \in 1..Len(tripList) : tripList[k].start_station_id = id })

endsAt(tripList, id) ==
  Cardinality({ k \in 1..Len(tripList) : tripList[k].end_station_id = id })

\* The station object bound to circle i.
datumOf(i) == heap[circles[i].datum]

\* C1: every station record that carries the derived fields (the loaded
\* stations after the initial aggregation, the copies after every slider
\* update) has totalTraffic = arrivals + departures.
C1_TotalIsSum ==
  \A a \in DOMAIN heap :
    "totalTraffic" \in DOMAIN heap[a] =>
      heap[a].totalTraffic = heap[a].arrivals + heap[a].departures

C1_Witness ==
  /\ pc = "ready"
  /\ timeFilter # INACTIVE
  /\ \E i \in 1..Len(circles) :
       datumOf(i).arrivals > 0 /\ datumOf(i).departures > 0

\* C2: once the slider handler is registered, the counts of every station
\* bound to a circle are the counts over filterTripsByTime(trips, v) for the
\* last slider value v alone: nothing of the earlier values or of the
\* all-trips aggregation on the loaded stations is left in them.
C2_NoAccumulation ==
  pc = "ready" =>
    /\ timeFilter = sliderValue
    /\ Len(circles) = Len(jsonData)
    /\ \A i \in 1..Len(circles) :
         LET d == datumOf(i)
             now == filterTripsByTime(trips, sliderValue)
         IN /\ d.short_name = heap[jsonData[i]].short_name
            /\ d.arrivals = endsAt(now, d.short_name)
            /\ d.departures = startsAt(now, d.short_name)
            /\ d.totalTraffic
                 = endsAt(now, d.short_name) + startsAt(now, d.short_name)

C2_Witness ==
  /\ pc = "ready"
  /\ timeFilter # INACTIVE
  /\ \E i \in 1..Len(circles) :
       /\ datumOf(i).totalTraffic > 0
       /\ heap[jsonData[i]].totalTraffic > datumOf(i).totalTraffic

\* Minutes since midnight of a Date, written out.
minutesOf(date) == 60 * date.hours + date.minutes

\* Linear (not circular) distance of at most 60 minutes from center c for the
\* start or the end of the trip.
near(trip, c) ==
  \/ (minutesOf(trip.started_at) - c <= 60 /\ c - minutesOf(trip.started_at) <= 60)
  \/ (minutesOf(trip.ended_at) - c <= 60 /\ c - minutesOf(trip.ended_at) <= 60)

\* C3: for an active center c, the filtered list is exactly the sub-list of
\* the trips, in their order, whose start or end is within 60 minutes of c
\* in linear distance; a trip that starts and ends at minute 0 is not in it
\* for c = 1439.
C3_WindowFilter ==
  (pc = "ready" /\ timeFilter # INACTIVE) =>
    LET keep == { i \in 1..Len(trips) : near(trips[i], timeFilter) }
        nth(k) == CHOOSE i \in keep : Cardinality({ j \in keep : j <= i }) = k
    IN /\ Len(filteredTrips) = Cardinality(keep)
       /\ \A k \in 1..Len(filteredTrips) : filteredTrips[k] = trips[nth(k)]
       /\ timeFilter = 1439 =>
            \A k \in 1..Len(filteredTrips) :
              ~ (/\ minutesOf(filteredTrips[k].started_at) = 0
                 /\ minutesOf(filteredTrips[k].ended_at) = 0)

C3_Witness ==
  /\ pc = "ready"
  /\ timeFilter = 1439
  /\ Len(trips) = 2
  /\ Len(filteredTrips) = 1
  /\ \E i \in 1..Len(trips) :
       minutesOf(trips[i].started_at) = 0 /\ minutesOf(trips[i].ended_at) = 0

\* C4: with the inactive value the filter returns the trip list it was
\* given, also the empty one.
C4_InactiveIdentity ==
  (pc = "ready" /\ timeFilter = INACTIVE) => filteredTrips = trips

C4_Witness ==
  /\ pc = "ready"
  /\ timeFilter = INACTIVE
  /\ Len(trips) = 2
  /\ filteredTrips = trips
  /\ \E i \in 1..Len(trips) : minutesOf(trips[i].started_at) > 60

\* C5: the aggregator returns one record per input station in the input
\* order, with departures the number of trips that start at the station and
\* arrivals the number that end at it; a trip end that matches no station
\* counts nowhere.  Checked for the initial aggregation (all trips, the
\* `stations` array) and for the slider updates (the filtered trips, the
\* data of the circles).
C5_Counts ==
  Rendered =>
    /\ Len(stations) = Len(jsonData)
    /\ \A i \in 1..Len(stations) :
         LET st == heap[stations[i]]
         IN /\ st.short_name = heap[jsonData[i]].short_name
            /\ st.departures = startsAt(trips, st.short_name)
            /\ st.arrivals = endsAt(trips, st.short_name)
            /\ st.totalTraffic = st.departures + st.arrivals
    /\ pc = "ready" =>
         /\ Len(circles) = Len(jsonData)
         /\ \A i \in 1..Len(circles) :
              LET d == datumOf(i)
              IN /\ d.short_name = heap[jsonData[i]].short_name
                 /\ d.departures = startsAt(filteredTrips, d.short_name)
                 /\ d.arrivals = endsAt(filteredTrips, d.short_name)
    /\ (/\ Len(stations) = 1
        /\ heap[stations[1]].short_name = "A"
        /\ trips = <<Trip("A", "B", 8, 0, 8, 10)>>) =>
         /\ heap[stations[1]].departures = 1
         /\ heap[stations[1]].arrivals = 0
         /\ heap[stations[1]].totalTraffic = 1

C5_Witness ==
  /\ Rendered
  /\ Len(stations) = 1
  /\ heap[stations[1]].short_name = "A"
  /\ trips = <<Trip("A", "B", 8, 0, 8, 10)>>
  /\ heap[stations[1]].departures = 1
  /\ heap[stations[1]].arrivals = 0

\* The fields of a station object other than the derived ones.
identityOf(obj) == [f \in DOMAIN obj \ DerivedFields |-> obj[f]]

\* C6 as stated: the aggregator leaves every station object it is given,
\* the loaded ones included, with the same fields and values as before.
C6_InputsUntouched ==
  [][\A i \in 1..Len(jsonData) :
       heap'[jsonData[i]] = heap[jsonData[i]]]_vars

\* C6, amended: the aggregator enriches in place.  The array it returns holds
\* the station objects it was given; a call adds or overwrites arrivals,
\* departures and totalTraffic on them and changes no other field, so the
\* loaded stations gain the derived fields at the initial aggregation, and
\* identifier and position stay as loaded on them and on the copies bound to
\* the circles; a slider update, which works on fresh copies, leaves the
\* loaded stations as they are.
C6_EnrichedInPlace ==
  [][LET loadedKept ==
           \A i \in 1..Len(jsonData) :
             LET before == heap[jsonData[i]]
                 after == heap'[jsonData[i]]
             IN /\ identityOf(after) = identityOf(before)
                /\ DOMAIN before \subseteq DOMAIN after
                /\ (pc = "awaitCsv" /\ Rendered') =>
                     /\ DOMAIN after = DOMAIN before \cup DerivedFields
                     /\ stations'[i] = stations[i]
                /\ listeners => after = before
         copiesKept ==
           \A k \in 1..Len(circles') :
             identityOf(heap'[circles'[k].datum])
               = identityOf(heap'[jsonData'[k]])
     IN loadedKept /\ copiesKept]_vars

C6_Witness ==
  /\ pc = "ready"
  /\ timeFilter # INACTIVE
  /\ \E i \in 1..Len(jsonData) :
       /\ stations[i] = jsonData[i]
       /\ heap[jsonData[i]].totalTraffic > 0
       /\ circles[i].datum # jsonData[i]
       /\ datumOf(i).totalTraffic < heap[jsonData[i]].totalTraffic

\* A load failure has been reported.
LoadFailed ==
  \E k \in 1..Len(errors) :
    errors[k] \in {"Error loading JSON:", "Error loading trips CSV:"}

\* Nothing of the rendering has happened: no aggregation (no station carries
\* a derived field), no scale, no circle, no slider listener, no filtering.
NothingRendered ==
  /\ \A a \in DOMAIN heap : DOMAIN heap[a] \cap DerivedFields = {}
  /\ radiusScale = NoScale
  /\ circles = <<>>
  /\ listeners = FALSE
  /\ filteredTrips = <<>>
  /\ timeFilter = INACTIVE
  /\ selectedTime = ""
  /\ anyTimeDisplay = ""

\* C7: until both loads have succeeded nothing is rendered and no slider
\* listener is registered; a failed load is reported and ends the handler,
\* and from then on no step (a slider event included, which then moves the
\* slider only) changes anything of the program's state.
C7_LoadFirstFailureTerminal ==
  /\ [](pc \in {"created", "awaitJson", "awaitCsv", "failed"}
          => NothingRendered)
  /\ []((pc = "failed") <=> LoadFailed)
  /\ [][pc = "failed" =>
          UNCHANGED <<pc, layers, errors, heap, jsonData, stations, trips,
                      filteredTrips, radiusScale, circles, listeners,
                      timeFilter, selectedTime, anyTimeDisplay>>]_vars

C7_Witness ==
  /\ pc = "failed"
  /\ Len(jsonData) > 0
  /\ sliderValue # INACTIVE
  /\ errors = <<"Error loading trips CSV:">>
  /\ NothingRendered

\* The largest totalTraffic among the stations bound to the circles, 0 if
\* there is none.
maxBound ==
  IF Len(circles) = 0 THEN 0
  ELSE CHOOSE m \in { datumOf(i).totalTraffic : i \in 1..Len(circles) } :
         \A i \in 1..Len(circles) : datumOf(i).totalTraffic <= m

\* C8: after every slider-driven update the pixel range of the radius scale
\* is [0, 25] exactly when the filter is inactive and [3, 50] otherwise, and
\* its domain is [0, largest totalTraffic of the filtered stations], [0, 0]
\* when there is no station.
C8_ScaleFromCurrentFilter ==
  pc = "ready" =>
    /\ (radiusScale.range = <<0, 25>>) <=> (timeFilter = INACTIVE)
    /\ (radiusScale.range = <<3, 50>>) <=> (timeFilter # INACTIVE)
    /\ radiusScale.domain = <<0, maxBound>>

C8_Witness ==
  /\ pc = "ready"
  /\ timeFilter = INACTIVE
  /\ radiusScale.range = <<0, 25>>
  /\ radiusScale.domain[2] > 0
  /\ anyTimeDisplay = "block"

\* C9 as stated: when the trip list used for an update is empty, every
\* station has all three counts 0, the radius domain is [0, 0] and every
\* circle has radius 0.
C9_EmptyTripsRadiusZero ==
  (pc = "ready" /\ filteredTrips = <<>>) =>
    /\ radiusScale.domain = <<0, 0>>
    /\ \A i \in 1..Len(circles) :
         /\ datumOf(i).arrivals = 0
         /\ datumOf(i).departures = 0
         /\ datumOf(i).totalTraffic = 0
         /\ circles[i].r = 0

\* C10: the flow value of every circle is one of "0", "0.5", "1": "0" when
\* totalTraffic is 0 or departures/totalTraffic < 1/3, "0.5" when the ratio
\* is in [1/3, 2/3), "1" when it is at least 2/3.
C10_FlowBuckets ==
  Rendered =>
    \A i \in 1..Len(circles) :
      LET dep == datumOf(i).departures
          tot == datumOf(i).totalTraffic
          flow == circles[i].ratio
      IN /\ flow \in {"0", "0.5", "1"}
         /\ tot = 0 => flow = "0"
         /\ (tot > 0 /\ 3 * dep < tot) => flow = "0"
         /\ (tot > 0 /\ tot <= 3 * dep /\ 3 * dep < 2 * tot) => flow = "0.5"
         /\ (tot > 0 /\ 2 * tot <= 3 * dep) => flow = "1"
         /\ (tot > 0 /\ dep = 0) => flow = "0"
         /\ (tot > 0 /\ 2 * dep = tot) => flow = "0.5"
         /\ (tot > 0 /\ dep = tot) => flow = "1"
         /\ (tot > 0 /\ 3 * dep = tot) => flow = "0.5"

C10_Witness ==
  /\ pc = "ready"
  /\ \E i \in 1..Len(circles) :
       /\ datumOf(i).totalTraffic = 3
       /\ datumOf(i).departures = 1
       /\ circles[i].ratio = "0.5"

====
